---- MODULE Spec2Model ----
(***************************************************************************)
(* A model of ai_study_planner.py: the schedule generator                  *)
(* generate_schedule, the main flow that runs when the "Generate Study     *)
(* Plan" button is pressed, the resource-suggestion loop and the           *)
(* session's favorites list.                                               *)
(*                                                                         *)
(* Dates are day numbers; Today is datetime.date.today().  Hours are kept  *)
(* in tenths of an hour (10 = 1.0 hour), the precision round(x, 1) gives.  *)
(* The program computes in binary floating point: a balance such as 0.3    *)
(* may be held as 0.30000000000000004 or 0.2999999999999998.  That residue *)
(* (below 1e-15) is not represented, except where the program's result     *)
(* depends on it at the precision of a tenth: round(hours / 2, 1) of an    *)
(* odd number of tenths is a tie that the residue resolves either way, so  *)
(* HalfHours takes either outcome.  With the two subject names of Names    *)
(* every schedule the program returns is one of this model's, up to that   *)
(* residue.                                                                *)
(***************************************************************************)
EXTENDS Integers, Sequences, FiniteSets, TLC

(* ---- bounds of the model ---- *)
MaxSubjects == 2
MaxHours == 3
MaxDays == 3
MaxPast == 1

(* ---- constants of the program ---- *)
Today == 0
MinDifficulty == 1
MaxDifficulty == 5
ReviewGap == 2
SessionCap == 10

Names == {"Math", "Science"}

Playlists == { [title |-> "Playlist", playlistId |-> "PL1"] }

VARIABLES
    name, exam_date, subjects, difficulty, available_hours, API_KEY,
    total_days, hours_per_subject, schedule, day, daily_hours, today_plan, i,
    plan, df_plan, shown, session_state, k, res, requested, articles_shown,
    resource, ret, pc

inputs == << name, exam_date, subjects, difficulty, available_hours, API_KEY >>

locals == << total_days, hours_per_subject, schedule, day, daily_hours,
             today_plan, i >>

flow == << plan, df_plan, shown, k, res, requested, articles_shown >>

session == << session_state, resource >>

vars == << inputs, locals, flow, session, ret, pc >>

(* ---- helpers ---- *)
Range(seq) == { seq[n] : n \in DOMAIN seq }

SeqsUpTo(S, n) == UNION { [1..m -> S] : m \in 0..n }

Min2(a, b) == IF a <= b THEN a ELSE b

RECURSIVE SumValues(_)
SumValues(d) ==
    IF DOMAIN d = {} THEN 0
    ELSE LET key == CHOOSE x \in DOMAIN d : TRUE
         IN d[key] + SumValues([x \in DOMAIN d \ {key} |-> d[x]])

(* round(num / den, 1) in tenths: nearest tenth, an exact tie to the even  *)
(* tenth.                                                                  *)
Round1(num, den) ==
    LET f == (10 * num) \div den
        r == (10 * num) % den
    IN IF 2 * r > den THEN f + 1
       ELSE IF 2 * r = den THEN f + (f % 2)
       ELSE f

(* round(hours / 2, 1) in tenths, see the note on floating point above: up *)
(* tells which way the residue resolves the tie of an odd number of        *)
(* tenths.                                                                 *)
HalfHours(h, up) == h \div 2 + (IF h % 2 = 1 /\ up THEN 1 ELSE 0)

(* ---- generate_schedule ---- *)
DaysUntilAbs(date) == IF date >= Today THEN date - Today ELSE Today - date

DaysUntil(date) == date - Today

TotalWeight(diff) == IF SumValues(diff) = 0 THEN 1 ELSE SumValues(diff)

Budget(subs, diff, hours, days) ==
    [ s \in Range(subs) |-> Round1(diff[s] * (days * hours), TotalWeight(diff)) ]

AllocatedIgnoringDay(owed, daily) == Min2(SessionCap, owed)

AllocatedIgnoringOwed(owed, daily) == Min2(SessionCap, daily)

AllocatedUncapped(owed, daily) == Min2(owed, daily)

Allocated(owed, daily) == Min2(SessionCap, Min2(owed, daily))

PlanDay(d) == Today + d

ReviewDayLate(d) == Today + (d + ReviewGap + 1)

ReviewDay(d) == Today + (d + ReviewGap)

StudyTask(s, h) == << <<s>>, h >>

ReviewTask(s, h) == << <<"Review", s>>, h >>

(* The schedule is a dict: a sequence of <<date, tasks>> in insertion      *)
(* order, one entry per date.                                              *)
Keys(sched) == { sched[n][1] : n \in DOMAIN sched }

Get(sched, date) ==
    sched[CHOOSE n \in DOMAIN sched : sched[n][1] = date][2]

SetItem(sched, date, tasks) ==
    IF date \in Keys(sched)
    THEN [ n \in DOMAIN sched |->
             IF sched[n][1] = date THEN << date, tasks >> ELSE sched[n] ]
    ELSE Append(sched, << date, tasks >>)

GetOrCreate(sched, date) == IF date \in Keys(sched) THEN Get(sched, date) ELSE << >>

StorePlan(sched, date, tasks) ==
    IF tasks # << >> THEN SetItem(sched, date, tasks) ELSE sched

Reviews(tasks, up) ==
    [ n \in DOMAIN tasks |->
        ReviewTask(tasks[n][1][1], HalfHours(tasks[n][2], up[n])) ]

AppendReviews(sched, date, tasks, up) ==
    IF tasks = << >> THEN sched
    ELSE SetItem(sched, date, GetOrCreate(sched, date) \o Reviews(tasks, up))

NoLocals ==
    /\ total_days = 0
    /\ hours_per_subject = << >>
    /\ schedule = << >>
    /\ day = 0
    /\ daily_hours = 0
    /\ today_plan = << >>
    /\ i = 0

NoFlow ==
    /\ plan = << >>
    /\ df_plan = [columns |-> {}, rows |-> << >>]
    /\ shown = << >>
    /\ k = 0
    /\ res = "none"
    /\ requested = << >>
    /\ articles_shown = << >>

NoSession ==
    /\ session_state = << >>
    /\ resource = << >>

(* A direct call of generate_schedule with any arguments.                  *)
Init ==
    /\ name = ""
    /\ API_KEY = ""
    /\ exam_date \in (Today - MaxPast)..(Today + MaxDays)
    /\ subjects \in SeqsUpTo(Names, MaxSubjects)
    /\ difficulty \in [Range(subjects) -> MinDifficulty..MaxDifficulty]
    /\ available_hours \in 1..MaxHours
    /\ NoLocals
    /\ NoFlow
    /\ NoSession
    /\ ret = "done"
    /\ pc = "call"

Begin ==
    /\ pc = "call"
    /\ total_days' = DaysUntil(exam_date)
    /\ hours_per_subject' =
           Budget(subjects, difficulty, available_hours, DaysUntil(exam_date))
    /\ schedule' = << >>
    /\ day' = 0
    /\ pc' = "while"
    /\ UNCHANGED << inputs, daily_hours, today_plan, i, flow, session, ret >>

WhileTest ==
    /\ pc = "while"
    /\ day < total_days
    /\ daily_hours' = 10 * available_hours
    /\ today_plan' = << >>
    /\ i' = 1
    /\ pc' = "for"
    /\ UNCHANGED << inputs, total_days, hours_per_subject, schedule, day,
                    flow, session, ret >>

ForSubject ==
    /\ pc = "for"
    /\ i <= Len(subjects)
    /\ LET subject == subjects[i]
           allocated == Allocated(hours_per_subject[subject], daily_hours)
       IN IF hours_per_subject[subject] > 0 /\ allocated > 0
          THEN /\ today_plan' = Append(today_plan, StudyTask(subject, allocated))
               /\ hours_per_subject' =
                      [hours_per_subject EXCEPT ![subject] = @ - allocated]
               /\ daily_hours' = daily_hours - allocated
          ELSE UNCHANGED << today_plan, hours_per_subject, daily_hours >>
    /\ i' = i + 1
    /\ UNCHANGED << inputs, total_days, schedule, day, flow, session, ret, pc >>

RecordDay ==
    /\ pc = "for"
    /\ i > Len(subjects)
    /\ \E up \in [DOMAIN today_plan -> BOOLEAN] :
          schedule' = AppendReviews(StorePlan(schedule, PlanDay(day), today_plan),
                                    ReviewDay(day), today_plan, up)
    /\ day' = day + 1
    /\ pc' = "while"
    /\ UNCHANGED << inputs, total_days, hours_per_subject, daily_hours,
                    today_plan, i, flow, session, ret >>

Return ==
    /\ pc = "while"
    /\ ~ (day < total_days)
    /\ plan' = schedule
    /\ pc' = ret
    /\ UNCHANGED << inputs, locals, df_plan, shown, k, res, requested,
                    articles_shown, session, ret >>

Next == Begin \/ WhileTest \/ ForSubject \/ RecordDay \/ Return

Spec == Init /\ [][Next]_vars

(* ---- the script run: inputs, the Generate button and sections 3 to 9 ---- *)
DefaultHours == 3
DefaultDifficulty == 3

RECURSIVE PlanList(_)
PlanList(items) ==
    IF items = << >> THEN << >>
    ELSE [ n \in DOMAIN Head(items)[2] |->
             [ Date |-> Head(items)[1],
               Subject |-> Head(items)[2][n][1],
               Hours |-> Head(items)[2][n][2] ] ]
         \o PlanList(Tail(items))

DataFrame(rows) ==
    [ columns |-> IF rows = << >> THEN {} ELSE {"Date", "Subject", "Hours"},
      rows |-> rows ]

(* The script starts with the widgets' values: any name, exam date and     *)
(* subject list, any API key and daily hours, the difficulty sliders at    *)
(* their default.                                                          *)
AppInit ==
    /\ name \in {"", "Ann"}
    /\ API_KEY \in {"", "key"}
    /\ exam_date \in (Today - MaxPast)..(Today + MaxDays)
    /\ subjects \in SeqsUpTo(Names, MaxSubjects)
    /\ difficulty = [ s \in Range(subjects) |-> DefaultDifficulty ]
    /\ available_hours \in 1..MaxHours
    /\ NoLocals
    /\ NoFlow
    /\ NoSession
    /\ ret = "s3"
    /\ pc = "button"

GenerateButton ==
    /\ pc = "button"
    /\ \E clicked \in BOOLEAN :
          pc' = IF clicked /\ name # "" /\ subjects # << >> THEN "call" ELSE "end"
    /\ UNCHANGED << inputs, locals, flow, session, ret >>

Section3_Plan ==
    /\ pc = "s3"
    /\ df_plan' = DataFrame(PlanList(plan))
    /\ shown' = Append(shown, "3")
    /\ pc' = "s4"
    /\ UNCHANGED << inputs, locals, plan, k, res, requested, articles_shown,
                    session, ret >>

Section4_Progress ==
    /\ pc = "s4"
    /\ shown' = IF Today \in Keys(plan)
                THEN shown \o << "4", "tasks" >>
                ELSE Append(shown, "4")
    /\ pc' = "s5"
    /\ UNCHANGED << inputs, locals, plan, df_plan, k, res, requested,
                    articles_shown, session, ret >>

Section5_Chart ==
    /\ pc = "s5"
    /\ shown' = IF df_plan.rows # << >> /\ {"Subject", "Hours"} \subseteq df_plan.columns
                THEN shown \o << "5", "chart" >>
                ELSE shown \o << "5", "no data" >>
    /\ pc' = "s6"
    /\ UNCHANGED << inputs, locals, plan, df_plan, k, res, requested,
                    articles_shown, session, ret >>

Section6_Tips ==
    /\ pc = "s6"
    /\ shown' = Append(shown, "6")
    /\ pc' = "s7"
    /\ UNCHANGED << inputs, locals, plan, df_plan, k, res, requested,
                    articles_shown, session, ret >>

Section7_Reminders ==
    /\ pc = "s7"
    /\ shown' = Append(shown, "7")
    /\ pc' = "s8"
    /\ UNCHANGED << inputs, locals, plan, df_plan, k, res, requested,
                    articles_shown, session, ret >>

Section8_Productivity ==
    /\ pc = "s8"
    /\ shown' = Append(shown, "8")
    /\ pc' = "s9"
    /\ UNCHANGED << inputs, locals, plan, df_plan, k, res, requested,
                    articles_shown, session, ret >>

(* df_plan['Hours'] raises KeyError when the frame has no such column.     *)
Section9_Milestones ==
    /\ pc = "s9"
    /\ shown' = Append(shown, "9")
    /\ pc' = IF "Hours" \in df_plan.columns THEN "s10" ELSE "crashed"
    /\ UNCHANGED << inputs, locals, plan, df_plan, k, res, requested,
                    articles_shown, session, ret >>

(* ---- section 10: resource suggestions and favorites ---- *)
Lower(s) == IF s = "Math" THEN "math" ELSE IF s = "Science" THEN "science" ELSE s

PlaylistResource(s, item) ==
    [ type |-> "YouTube Playlist", subject |-> s, title |-> << item.title >>,
      link |-> << "https://www.youtube.com/playlist?list=", item.playlistId >> ]

Articles(s) ==
    << [ title |-> << "Introduction to", s >>,
         link |-> << "https://en.wikipedia.org/wiki/", s >> ],
       [ title |-> << "Top", s, "Study Tips" >>,
         link |-> << "https://www.study.com/academy/topic/", Lower(s), ".html" >> ] >>

ArticleResource(s, article) ==
    [ type |-> "Article", subject |-> s, title |-> article.title,
      link |-> article.link ]

Resources ==
    { PlaylistResource(s, item) : s \in Names, item \in Playlists }
    \cup { ArticleResource(s, Articles(s)[n]) : s \in Names, n \in 1..2 }

save_favorite_unchecked(favorites, r) == Append(favorites, r)

save_favorite(favorites, r) ==
    IF r \notin Range(favorites) THEN Append(favorites, r) ELSE favorites

RECURSIVE SaveAll(_, _)
SaveAll(favorites, rs) ==
    IF rs = << >> THEN favorites
    ELSE SaveAll(save_favorite(favorites, Head(rs)), Tail(rs))

(* What requests.get gives: it raises, or answers with a status and, for  *)
(* status 200, a list of items.                                            *)
Responses ==
    { [ raised |-> TRUE, status_code |-> 0, items |-> << >> ],
      [ raised |-> FALSE, status_code |-> 500, items |-> << >> ],
      [ raised |-> FALSE, status_code |-> 200, items |-> << >> ] }
    \cup { [ raised |-> FALSE, status_code |-> 200, items |-> << item >> ] :
             item \in Playlists }

Found(response) ==
    ~ response.raised /\ response.status_code = 200 /\ response.items # << >>

Report(response) ==
    IF response.raised THEN "exception"
    ELSE IF response.status_code # 200 THEN "failed"
    ELSE IF response.items = << >> THEN "not found"
    ELSE "found"

AfterLookupUncaught(response) == IF response.raised THEN "crashed" ELSE "articles"

(* The try/except around the lookup catches every exception: whatever the  *)
(* response, the script goes on to the subject's articles.                 *)
AfterLookup(response) == "articles"

Section10_Resources ==
    /\ pc = "s10"
    /\ shown' = Append(shown, "10")
    /\ session_state' = IF "favorites" \in DOMAIN session_state
                        THEN session_state
                        ELSE [ x \in {"favorites"} |-> << >> ]
    /\ k' = 1
    /\ pc' = "subject"
    /\ UNCHANGED << inputs, locals, plan, df_plan, res, requested,
                    articles_shown, resource, ret >>

Lookup ==
    /\ pc = "subject"
    /\ k <= Len(subjects)
    /\ IF API_KEY # ""
       THEN \E response \in Responses, clicked \in BOOLEAN :
               /\ requested' = Append(requested, subjects[k])
               /\ res' = Report(response)
               /\ IF Found(response) /\ clicked
                  THEN /\ session_state' =
                             [ session_state EXCEPT !["favorites"] =
                                 save_favorite(@, PlaylistResource(subjects[k],
                                                                   response.items[1])) ]
                       /\ resource' = PlaylistResource(subjects[k], response.items[1])
                  ELSE UNCHANGED << session_state, resource >>
               /\ pc' = AfterLookup(response)
       ELSE /\ pc' = "articles"
            /\ UNCHANGED << requested, res, session_state, resource >>
    /\ UNCHANGED << inputs, locals, plan, df_plan, shown, k, articles_shown, ret >>

ShowArticles ==
    /\ pc = "articles"
    /\ articles_shown' = articles_shown \o Articles(subjects[k])
    /\ \E clicked \in SUBSET {1, 2} :
          LET saved == SelectSeq([ n \in 1..2 |->
                                     ArticleResource(subjects[k], Articles(subjects[k])[n]) ],
                                 LAMBDA r : \E n \in clicked :
                                     r = ArticleResource(subjects[k], Articles(subjects[k])[n]))
          IN /\ session_state' =
                    [ session_state EXCEPT !["favorites"] = SaveAll(@, saved) ]
             /\ resource' = IF saved = << >> THEN resource ELSE saved[Len(saved)]
    /\ k' = k + 1
    /\ pc' = "subject"
    /\ UNCHANGED << inputs, locals, plan, df_plan, shown, res, requested, ret >>

ShowFavorites ==
    /\ pc = "subject"
    /\ k > Len(subjects)
    /\ shown' = IF session_state["favorites"] # << >>
                THEN Append(shown, "favorites")
                ELSE Append(shown, "no favorites")
    /\ pc' = "end"
    /\ UNCHANGED << inputs, locals, plan, df_plan, k, res, requested,
                    articles_shown, session, ret >>

AppNext ==
    \/ GenerateButton
    \/ Begin \/ WhileTest \/ ForSubject \/ RecordDay \/ Return
    \/ Section3_Plan \/ Section4_Progress \/ Section5_Chart \/ Section6_Tips
    \/ Section7_Reminders \/ Section8_Productivity \/ Section9_Milestones
    \/ Section10_Resources \/ Lookup \/ ShowArticles \/ ShowFavorites

AppSpec == AppInit /\ [][AppNext]_vars

(* ---- the favorites list under any sequence of save_favorite calls ---- *)
FavInit ==
    /\ name = "Ann"
    /\ API_KEY = "key"
    /\ exam_date = Today
    /\ subjects = << >>
    /\ difficulty = << >>
    /\ available_hours = DefaultHours
    /\ NoLocals
    /\ NoFlow
    /\ session_state = [ x \in {"favorites"} |-> << >> ]
    /\ resource = << >>
    /\ ret = "end"
    /\ pc = "end"

SaveFavorite ==
    /\ "favorites" \in DOMAIN session_state
    /\ \E r \in Resources :
          /\ session_state' =
                [ session_state EXCEPT !["favorites"] = save_favorite(@, r) ]
          /\ resource' = r
    /\ UNCHANGED << inputs, locals, flow, ret, pc >>

FavNext == SaveFavorite

FavSpec == FavInit /\ [][FavNext]_vars

(* ---- reading a returned schedule ---- *)
IsReview(task) == Len(task[1]) = 2 /\ task[1][1] = "Review"

IsStudy(task) == ~ IsReview(task)

RECURSIVE StudyHours(_)
StudyHours(tasks) ==
    IF tasks = << >> THEN 0
    ELSE (IF IsStudy(Head(tasks)) THEN Head(tasks)[2] ELSE 0) + StudyHours(Tail(tasks))

RECURSIVE SubjectStudyHours(_, _)
SubjectStudyHours(tasks, s) ==
    IF tasks = << >> THEN 0
    ELSE (IF Head(tasks)[1] = <<s>> THEN Head(tasks)[2] ELSE 0)
         + SubjectStudyHours(Tail(tasks), s)

RECURSIVE TotalStudyHours(_, _, _)
TotalStudyHours(sched, dates, s) ==
    IF dates = {} THEN 0
    ELSE LET d == CHOOSE x \in dates : TRUE
         IN SubjectStudyHours(Get(sched, d), s) + TotalStudyHours(sched, dates \ {d}, s)

Owed(s) == Budget(subjects, difficulty, available_hours, total_days)[s]

HasReview(tasks, s, h) ==
    \E m \in DOMAIN tasks, up \in BOOLEAN :
        tasks[m] = ReviewTask(s, HalfHours(h, up))

(* C1: in the returned schedule every study task (s, h) of day d has a     *)
(* task "Review s" of round(h/2, 1) hours on day d + 2, also when day      *)
(* d + 2 is inside the horizon and receives fresh study tasks.             *)
C1_ReviewTwoDaysLater ==
    pc = "done" =>
        \A d \in 0..(total_days - 1) :
            PlanDay(d) \in Keys(schedule) =>
                \A n \in DOMAIN Get(schedule, PlanDay(d)) :
                    LET task == Get(schedule, PlanDay(d))[n]
                    IN IsStudy(task) =>
                          /\ ReviewDay(d) \in Keys(schedule)
                          /\ HasReview(Get(schedule, ReviewDay(d)), task[1][1], task[2])

(* C2: on every date of the returned schedule the study (non-review)       *)
(* hours sum to at most the daily hours.                                   *)
C2_DailyHoursRespected ==
    pc = "done" =>
        \A date \in Keys(schedule) :
            StudyHours(Get(schedule, date)) <= 10 * available_hours

C2_Witness ==
    /\ pc = "done"
    /\ \E date \in Keys(schedule) :
          /\ StudyHours(Get(schedule, date)) = 10 * available_hours
          /\ Len(Get(schedule, date)) >= 2
          /\ \E s \in Range(subjects) : hours_per_subject[s] > 0

(* C3 as stated: for every subject the study hours summed over all dates   *)
(* exceed the owed budget by at most 0.1, and inside the allocation loop   *)
(* the owed balance is never negative.                                     *)
C3_BudgetRespectedAlways ==
    /\ pc = "done" =>
          \A s \in Range(subjects) :
              TotalStudyHours(schedule, Keys(schedule), s) <= Owed(s) + 1
    /\ pc = "for" => \A s \in Range(subjects) : hours_per_subject[s] >= 0

(* C3 amended: when the exam is today or later (total_days >= 0), for      *)
(* every subject the study hours summed over all dates exceed the owed     *)
(* budget by at most 0.1, and inside the allocation loop the owed balance  *)
(* is never negative.                                                      *)
C3_BudgetRespected ==
    /\ (pc = "done" /\ total_days >= 0) =>
          \A s \in Range(subjects) :
              TotalStudyHours(schedule, Keys(schedule), s) <= Owed(s) + 1
    /\ pc = "for" => \A s \in Range(subjects) : hours_per_subject[s] >= 0

C3_Witness ==
    /\ pc = "done"
    /\ total_days > 1
    /\ \E s \in Range(subjects) :
          /\ Owed(s) > SessionCap
          /\ TotalStudyHours(schedule, Keys(schedule), s) = Owed(s)

(* C4: with an exam date of today or earlier the schedule has no dates at  *)
(* any point of the call, the returned schedule included.                  *)
C4_PastExamEmpty ==
    exam_date <= Today =>
        schedule = << >>

C4_Witness ==
    /\ pc = "done"
    /\ exam_date < Today
    /\ Len(subjects) = 2
    /\ schedule = << >>

(* C5: with at least one subject and total_days > 0, every date of the     *)
(* returned schedule is today or later, every date with a study task is at *)
(* most today + total_days - 1, and no date is after today + total_days    *)
(* + 1.                                                                    *)
C5_DatesInHorizon ==
    (pc = "done" /\ Len(subjects) >= 1 /\ total_days > 0) =>
        \A date \in Keys(schedule) :
            /\ date >= Today
            /\ date <= Today + total_days + 1
            /\ (\E n \in DOMAIN Get(schedule, date) : IsStudy(Get(schedule, date)[n]))
                   => date <= Today + total_days - 1

C5_Witness ==
    /\ pc = "done"
    /\ total_days > 0
    /\ (Today + total_days + 1) \in Keys(schedule)
    /\ (Today + total_days - 1) \in Keys(schedule)
    /\ \E n \in DOMAIN Get(schedule, Today + total_days - 1) :
          IsStudy(Get(schedule, Today + total_days - 1)[n])

(* C6: Math (4) and Science (2), 3 hours a day, 2 days: the balances start *)
(* at 4.0 and 2.0 and end at 2.0 and 0.0, and the schedule is exactly one  *)
(* hour of each on days 0 and 1 and half an hour of review of each on days *)
(* 2 and 3.                                                                *)
Scenario ==
    /\ subjects = <<"Math", "Science">>
    /\ difficulty = [s \in Names |-> IF s = "Math" THEN 4 ELSE 2]
    /\ available_hours = 3
    /\ exam_date = Today + 2

ScenarioStudy == << StudyTask("Math", 10), StudyTask("Science", 10) >>

ScenarioReview == << ReviewTask("Math", 5), ReviewTask("Science", 5) >>

C6_Scenario ==
    Scenario =>
        /\ (pc = "while" /\ day = 0) =>
              hours_per_subject = [s \in Names |-> IF s = "Math" THEN 40 ELSE 20]
        /\ pc = "done" =>
              /\ Len(schedule) = 4
              /\ Keys(schedule) = Today..(Today + 3)
              /\ \A d \in Today..(Today + 3) :
                    Get(schedule, d) =
                        IF d < Today + 2 THEN ScenarioStudy ELSE ScenarioReview
              /\ hours_per_subject = [s \in Names |-> IF s = "Math" THEN 20 ELSE 0]

C6_Witness == Scenario /\ pc = "done" /\ Keys(schedule) = Today..(Today + 3)

(* C9: on every date of the returned schedule no subject has more than 1.0 *)
(* study hour, for every subject sequence the input parsing can produce    *)
(* (the same name may be listed more than once).                           *)
C9_OneHourPerSubjectPerDay ==
    pc = "done" =>
        \A date \in Keys(schedule) : \A s \in Names :
            SubjectStudyHours(Get(schedule, date), s) <= SessionCap

(* ---- the favorites list, the main flow and the resource loop ---- *)
Favorites == session_state["favorites"]

NoDuplicates(favorites) ==
    \A a, b \in DOMAIN favorites : a # b => favorites[a] # favorites[b]

(* C7: after any sequence of save_favorite calls the favorites list has no *)
(* two equal records, and a call leaves the list as it is when an equal    *)
(* record is present and otherwise appends exactly its record at the end;  *)
(* no entry is removed, replaced or moved.                                 *)
C7_FavoritesAppendOnly ==
    [][ /\ NoDuplicates(session_state'["favorites"])
        /\ session_state'["favorites"] =
              IF resource' \in Range(Favorites)
              THEN Favorites
              ELSE Append(Favorites, resource') ]_vars

C7_Witness ==
    /\ "favorites" \in DOMAIN session_state
    /\ Len(Favorites) >= 3
    /\ resource \in Range(Favorites)
    /\ resource # Favorites[Len(Favorites)]

(* C8: once the Generate action runs with a name and a subject list, no    *)
(* section of the main flow ends the script with an unhandled error,       *)
(* whatever the exam date.                                                 *)
C8_NoFatalError == pc # "crashed"

RECURSIVE ArticlesUpTo(_)
ArticlesUpTo(n) ==
    IF n = 0 THEN << >> ELSE ArticlesUpTo(n - 1) \o Articles(subjects[n])

(* C10: with an API key, the resource loop makes one lookup per subject,   *)
(* in list order; whatever a lookup gives, the subject's two articles are  *)
(* shown next and the loop goes on to the remaining subjects.              *)
C10_LookupPerSubject ==
    API_KEY # "" =>
        /\ pc = "subject" =>
              /\ requested = SubSeq(subjects, 1, k - 1)
              /\ articles_shown = ArticlesUpTo(k - 1)
        /\ pc = "articles" =>
              /\ requested = SubSeq(subjects, 1, k)
              /\ articles_shown = ArticlesUpTo(k - 1)
        /\ requested # << >> => pc \in {"subject", "articles", "end"}
        /\ (pc = "end" /\ k > 0) =>
              /\ requested = subjects
              /\ articles_shown = ArticlesUpTo(Len(subjects))

C10_Witness ==
    /\ API_KEY # ""
    /\ pc = "subject"
    /\ k = 2
    /\ Len(subjects) = 2
    /\ res = "exception"
    /\ requested = << subjects[1] >>
    /\ articles_shown = Articles(subjects[1])

====
